---- MODULE Spec2Model ----
(***************************************************************************)
(* ArrayVec<T, A>: a vector stored in an embedded fixed-size array          *)
(* (src/src/lib.rs).  The model keeps the fields of the struct (array,      *)
(* idx), the memory of the N slots of the array, and the history needed to  *)
(* speak about ownership: which values were pushed, which were handed back  *)
(* to the caller, and on which values a destructor has run.                 *)
(***************************************************************************)
EXTENDS Integers, Sequences, FiniteSets, TLC

\* ---- bounds -------------------------------------------------------------
MaxN == 3        \* largest array length N of the type parameter A = [T; N]
MaxVals == 4     \* number of values of type T constructed in one run
MaxSrc == 4      \* longest source sequence handed to from_iter

\* size_of::<T>() of the element types instantiated: () and i32 / Droppings(u32)
ElemSizes == {0, 4}

Values == 1..MaxVals

\* bits of a slot that were produced by mem::uninitialized()
Uninit == 0

Bits == Values \cup {Uninit}

VARIABLES
    N,          \* length of the array type A (type parameter, fixed)
    sizeT,      \* size_of::<T>() (type parameter, fixed)
    array,      \* field array: "Some" or "None"
    slots,      \* memory of the array: slot index -> bits
    idx,        \* field idx
    pc,         \* "from_iter", "live", "unwind", "drop_loop", "dropped"
    srcLeft,    \* elements the iterable of from_iter has still to yield
    fresh,      \* next value the caller / the iterable constructs
    ret,        \* the last call of push or pop and what it returned
    pre,        \* length and live view at the entry of that call
    owner,      \* value -> "unborn", "vec", "caller", "dead"
    pushLog,    \* values stored by successful pushes, in order
    dropLog,    \* bits on which a destructor has run, in order
    liveAtDrop, \* values in the live prefix when drop() was entered
    popsInDrop, \* calls of pop made by the loop of drop()
    srcLen,     \* elements the iterable of from_iter yields in all (fixed)
    popLog      \* values pop has returned to the owner, in order

vars == <<N, sizeT, array, slots, idx, pc, srcLeft, fresh, ret, pre, owner,
          pushLog, dropLog, liveAtDrop, popsInDrop, srcLen, popLog>>

\* ---- helpers ------------------------------------------------------------
Range(s) == {s[i] : i \in 1..Len(s)}

Count(s, x) == Cardinality({i \in 1..Len(s) : s[i] = x})

\* position of x in s (0 when absent)
Pos(s, x) == IF x \in Range(s) THEN CHOOSE i \in 1..Len(s) : s[i] = x ELSE 0

SlotIdx == 0..(N - 1)

\* ---- the pure functions of the impl -------------------------------------
\* *ptr.offset(i) read: the bits of slot i; an offset outside the array reads
\* memory that holds no T of this container.
Load(s, i) == IF i \in DOMAIN s THEN s[i] ELSE Uninit

\* base_ptr / base_ptr_mut: the address of the array, or unreachable!()
\* variant: the pattern matches the wrong variant of the Option
base_ptr_on_none == IF array = "None" THEN "ptr" ELSE "unreachable"

base_ptr == IF array = "Some" THEN "ptr" ELSE "unreachable"

\* capacity(): size_of::<A>() / size_of::<T>(); the division panics for a
\* zero-sized T.
capacity_panics == sizeT = 0

capacity == (N * sizeT) \div sizeT

\* length()
length == idx

\* the test of push: self.idx < self.capacity()
\* variant: the test admits one element too many
PushFitsInclusive(i, c) == i <= c

PushFits(i, c) == i < c

\* mem::swap(&mut *ptr.offset(self.idx as isize), &mut cell) in push: the
\* slot receives x (cell receives the old bits of the slot).
\* variant: the store always goes to the first slot
PushStoreFront(s, i, x) == [s EXCEPT ![0] = x]

PushStore(s, i, x) == [s EXCEPT ![i] = x]

\* mem::forget(cell) in push: no destructor runs on the old bits of the slot.
PushForget(oldBits) == <<>>

\* the Err branch of push: x goes out of scope at the end of push.
\* variant: the rejected value is forgotten instead of dropped
PushRejectLeaks(x) == <<>>

PushRejectDrops(x) == <<x>>

\* the slot pop reads: ptr.offset(self.idx as isize - 1)
\* variants: pop reads the slot at idx / the first slot
PopSlotOffByOne(i) == i

PopSlotFront(i) == 0

PopSlot(i) == i - 1

\* self.idx = self.idx - 1 in pop
\* variant: pop does not decrement idx
PopIdxKept(i) == i

PopIdx(i) == i - 1

\* the test of pop: self.idx <= 0
\* variant: the test misses idx = 0
PopEmptyStrict(i) == i < 0

PopEmpty(i) == i <= 0

\* the bits mem::swap leaves in the slot pop has read: those of the
\* uninitialized cell, which the build may take to be anything, the bits of
\* the value just moved out included.
PopLeaves(v) == {Uninit, v}

\* deref / deref_mut: slice::from_raw_parts(self.base_ptr(), self.length())
\* variant: the slice is given the capacity of the array for its length
ViewWholeArray == [i \in 1..N |-> Load(slots, i - 1)]

View == [i \in 1..length |-> Load(slots, i - 1)]

\* the destructor of an Option<A>: None runs nothing, Some(a) runs the
\* destructor of each of the N elements of a.
DropGlue(opt, s) == IF opt = "Some" THEN [i \in 1..N |-> s[i - 1]] ELSE <<>>

\* mem::forget(to_be_forgotten) in drop: the destructor of the array taken
\* out of self.array does not run.
\* variant: the array taken out of self.array is dropped, not forgotten
DropNotForgotten(opt, s) == DropGlue(opt, s)

DropForget(opt, s) == <<>>

\* the test of the loop of drop: self.length() > 0
\* variant: the loop stops one element early
DropLoopSkipsLast(i) == i > 1

DropLoopTest(i) == i > 0

\* ---- initial state: ArrayVec::new(), called directly or by from_iter -----
Init ==
    /\ N \in 0..MaxN
    /\ sizeT \in ElemSizes
    /\ array = "Some"
    /\ slots = [i \in SlotIdx |-> Uninit]
    /\ idx = 0
    /\ \/ pc = "live" /\ srcLeft = 0
       \/ pc = "from_iter" /\ srcLeft \in 0..MaxSrc
    /\ srcLen = srcLeft
    /\ popLog = <<>>
    /\ fresh = 1
    /\ ret = [op |-> "new", arg |-> Uninit, res |-> "Ok", val |-> Uninit]
    /\ pre = [idx |-> 0, view |-> <<>>]
    /\ owner = [v \in Values |-> "unborn"]
    /\ pushLog = <<>>
    /\ dropLog = <<>>
    /\ liveAtDrop = {}
    /\ popsInDrop = 0

\* ---- push ----------------------------------------------------------------
\* push(x) as called with the container at pc; okPc / errPc are where the
\* caller goes on after Ok / Err.  A panic of capacity() unwinds: x, owned by
\* push, is dropped, and the caller's frame is left.
PushBody(x, okPc, errPc) ==
    /\ pre' = [idx |-> idx, view |-> View]
    /\ fresh' = fresh + 1
    /\ IF capacity_panics
       THEN /\ ret' = [op |-> "push", arg |-> x, res |-> "Panic", val |-> Uninit]
            /\ dropLog' = dropLog \o <<x>>
            /\ owner' = [owner EXCEPT ![x] = "dead"]
            /\ pc' = "unwind"
            /\ UNCHANGED <<slots, idx, pushLog>>
       ELSE IF PushFits(idx, capacity)
       THEN /\ base_ptr = "ptr"
            /\ slots' = PushStore(slots, idx, x)
            /\ dropLog' = dropLog \o PushForget(Load(slots, idx))
            /\ idx' = idx + 1
            /\ owner' = [owner EXCEPT ![x] = "vec"]
            /\ pushLog' = Append(pushLog, x)
            /\ ret' = [op |-> "push", arg |-> x, res |-> "Ok", val |-> Uninit]
            /\ pc' = okPc
       ELSE \* x is not returned inside the Err: it stays with push, whose
            \* scope ends here
            /\ dropLog' = dropLog \o PushRejectDrops(x)
            /\ owner' = [owner EXCEPT
                           ![x] = IF x \in Range(dropLog') THEN "dead" ELSE "caller"]
            /\ ret' = [op |-> "push", arg |-> x, res |-> "Err", val |-> Uninit]
            /\ pc' = errPc
            /\ UNCHANGED <<slots, idx, pushLog>>
    /\ UNCHANGED <<N, sizeT, array, liveAtDrop, popsInDrop, srcLen, popLog>>

\* a.push(x) by the owner of the container
Push ==
    /\ pc = "live"
    /\ fresh <= MaxVals
    /\ PushBody(fresh, "live", "live")
    /\ UNCHANGED srcLeft

\* ---- pop -----------------------------------------------------------------
\* the Option<T> pop returns
PopRet ==
    IF PopEmpty(idx)
    THEN [op |-> "pop", arg |-> Uninit, res |-> "None", val |-> Uninit]
    ELSE [op |-> "pop", arg |-> Uninit, res |-> "Some", val |-> Load(slots, PopSlot(idx))]

\* what pop does to the fields and to the memory of the array
PopBody ==
    IF PopEmpty(idx)
    THEN UNCHANGED <<slots, idx>>
    ELSE /\ base_ptr = "ptr"
         /\ \E b \in PopLeaves(Load(slots, PopSlot(idx))) :
               slots' = [slots EXCEPT ![PopSlot(idx)] = b]
         /\ idx' = PopIdx(idx)

\* a.pop() by the owner of the container, who keeps the value returned
Pop ==
    /\ pc = "live"
    /\ pre' = [idx |-> idx, view |-> View]
    /\ PopBody
    /\ ret' = PopRet
    /\ owner' = [v \in Values |->
                   IF PopRet.res = "Some" /\ v = PopRet.val THEN "caller" ELSE owner[v]]
    /\ popLog' = popLog \o (IF PopRet.res = "Some" THEN <<PopRet.val>> ELSE <<>>)
    /\ UNCHANGED <<N, sizeT, array, pc, srcLeft, fresh, pushLog, dropLog,
                   liveAtDrop, popsInDrop, srcLen>>

\* ---- capacity, indexing, views, formatting --------------------------------
\* what a call that only reads leaves unchanged
ReadOnly ==
    UNCHANGED <<N, sizeT, array, slots, idx, srcLeft, fresh, pre, owner, pushLog,
                dropLog, liveAtDrop, popsInDrop, srcLen, popLog>>

\* the result of a call that only reads; a panic leaves the owner's frame
Returns(op, arg, res, val) ==
    /\ ret' = [op |-> op, arg |-> arg, res |-> res, val |-> val]
    /\ pc' = IF res = "Ok" THEN pc ELSE "unwind"

\* a.capacity() by the owner of the container
Capacity ==
    /\ pc = "live"
    /\ IF capacity_panics
       THEN Returns("capacity", Uninit, "Panic", Uninit)
       ELSE Returns("capacity", Uninit, "Ok", capacity)
    /\ ReadOnly

\* the indices the owner tries: those of the array and one beyond
IndexArgs == 0..MaxN

\* s[i] of a slice: the element, or a panic when i is not below its length
\* variant: the bound of the slice is not checked against the live length
SliceIndexUnchecked(s, i) ==
    IF i < N THEN [res |-> "Ok", val |-> Load(slots, i)]
    ELSE [res |-> "Panic", val |-> Uninit]

SliceIndex(s, i) ==
    IF i < Len(s) THEN [res |-> "Ok", val |-> s[i + 1]]
    ELSE [res |-> "Panic", val |-> Uninit]

\* a[i] by the owner of the container: &(**self)[index]
Index ==
    /\ pc = "live"
    /\ \E i \in IndexArgs :
          IF base_ptr = "ptr"
          THEN Returns("index", i, SliceIndex(View, i).res, SliceIndex(View, i).val)
          ELSE Returns("index", i, "Unreachable", Uninit)
    /\ ReadOnly

\* &*a / &mut *a by the owner of the container; the slice handed out is
\* View, ret keeps its length
Deref ==
    /\ pc = "live"
    /\ IF base_ptr = "ptr"
       THEN Returns("deref", Uninit, "Ok", Len(View))
       ELSE Returns("deref", Uninit, "Unreachable", Uninit)
    /\ ReadOnly

\* format!("{:?}", a): Debug::fmt of the slice deref hands out, one rendering
\* for each of its elements
Fmt ==
    /\ pc = "live"
    /\ IF base_ptr = "ptr"
       THEN Returns("fmt", Uninit, "Ok", Len(View))
       ELSE Returns("fmt", Uninit, "Unreachable", Uninit)
    /\ ReadOnly

\* ---- from_iter -----------------------------------------------------------
\* one turn of `for element in iterable { result.push(element).unwrap(); }`:
\* unwrap panics on Err.
FromIterNext ==
    /\ pc = "from_iter"
    /\ srcLeft > 0
    /\ fresh <= MaxVals
    /\ PushBody(fresh, "from_iter", "unwind")
    /\ srcLeft' = srcLeft - 1

\* the iterable is exhausted: from_iter returns result
FromIterReturn ==
    /\ pc = "from_iter"
    /\ srcLeft = 0
    /\ pc' = "live"
    /\ UNCHANGED <<N, sizeT, array, slots, idx, srcLeft, fresh, ret, pre, owner,
                   pushLog, dropLog, liveAtDrop, popsInDrop, srcLen, popLog>>

\* ---- drop ----------------------------------------------------------------
\* the container goes out of scope (at the end of its owner's scope, or
\* while a panic unwinds): drop() is entered
DropBegin ==
    /\ pc \in {"live", "unwind"}
    /\ pc' = "drop_loop"
    /\ liveAtDrop' = {Load(slots, i) : i \in 0..(idx - 1)}
    /\ UNCHANGED <<N, sizeT, array, slots, idx, srcLeft, fresh, ret, pre, owner,
                   pushLog, dropLog, popsInDrop, srcLen, popLog>>

\* one turn of `while self.length() > 0 { self.pop(); }`: the Option<T>
\* returned goes out of scope at once, and with it the value it holds.
DropLoop ==
    /\ pc = "drop_loop"
    /\ DropLoopTest(length)
    /\ PopBody
    /\ dropLog' = dropLog \o (IF PopRet.res = "Some" THEN <<PopRet.val>> ELSE <<>>)
    /\ owner' = [v \in Values |->
                   IF PopRet.res = "Some" /\ v = PopRet.val THEN "dead" ELSE owner[v]]
    /\ popsInDrop' = popsInDrop + 1
    /\ UNCHANGED <<N, sizeT, array, pc, srcLeft, fresh, ret, pre, pushLog,
                   liveAtDrop, srcLen, popLog>>

\* the loop is left: self.array is swapped with None and the array taken out
\* is forgotten; then drop() returns and the fields of self are dropped.
DropRelease ==
    /\ pc = "drop_loop"
    /\ ~DropLoopTest(length)
    /\ array' = "None"
    /\ dropLog' = dropLog \o DropForget(array, slots) \o DropGlue(array', slots)
    /\ pc' = "dropped"
    /\ UNCHANGED <<N, sizeT, slots, idx, srcLeft, fresh, ret, pre, owner,
                   pushLog, liveAtDrop, popsInDrop, srcLen, popLog>>

Next ==
    \/ Push
    \/ Pop
    \/ Capacity
    \/ Index
    \/ Deref
    \/ Fmt
    \/ FromIterNext
    \/ FromIterReturn
    \/ DropBegin
    \/ DropLoop
    \/ DropRelease

Spec == Init /\ [][Next]_vars

\* drop() is straight-line code run by one thread: once entered, its loop and
\* the release of the array are not held up
FairSpec == Spec /\ WF_vars(DropLoop) /\ WF_vars(DropRelease)

TypeOK ==
    /\ N \in 0..MaxN
    /\ sizeT \in ElemSizes
    /\ array \in {"Some", "None"}
    /\ slots \in [SlotIdx -> Bits]
    /\ idx \in 0..MaxN
    /\ pc \in {"from_iter", "live", "unwind", "drop_loop", "dropped"}
    /\ owner \in [Values -> {"unborn", "vec", "caller", "dead"}]

\* ---- steps, as seen from two consecutive states --------------------------
\* a call of push (by the owner or by from_iter): a value is constructed
IsPushStep == fresh' # fresh

\* a call of pop by the owner
IsPopStep == pc = "live" /\ pc' = "live" /\ fresh' = fresh /\ ret'.op = "pop"

OwnedByVec == {v \in Values : owner[v] = "vec"}

\* a slot holds a live value: bits of a value the container owns
Live(i) == slots[i] \in Values /\ owner[slots[i]] = "vec"

\* ---- C1 -------------------------------------------------------------------
\* C1: in every state reachable from new() by push, pop and from_iter,
\* 0 <= length() <= capacity() (capacity() being the N of the array whenever
\* it returns).
C1_LengthWithinCapacity ==
    /\ 0 <= length
    /\ length <= N
    /\ ~capacity_panics => length <= capacity

\* a push was rejected on a full container of positive capacity
C1_Witness ==
    /\ ~capacity_panics
    /\ length = capacity
    /\ length > 0
    /\ ret.op = "push" /\ ret.res = "Err"

\* ---- C2 -------------------------------------------------------------------
\* C2: the live slots are exactly the prefix [0, length): every slot below
\* length holds one value, stored by one push, not moved out and not
\* destructed, no value is in two slots, every slot from length on holds no
\* live value, and the container owns nothing outside the prefix.
C2_LivePrefix ==
    /\ \A i \in SlotIdx :
          IF i < length
          THEN /\ Live(i)
               /\ Count(pushLog, slots[i]) = 1
               /\ Count(dropLog, slots[i]) = 0
               /\ \A j \in SlotIdx : (j < length /\ slots[j] = slots[i]) => j = i
          ELSE ~Live(i)
    /\ OwnedByVec = {slots[i] : i \in {j \in SlotIdx : j < length}}

\* a pop has left a live prefix below a slot whose value was moved out
C2_Witness ==
    /\ pc = "live"
    /\ ret.op = "pop" /\ ret.res = "Some"
    /\ 0 < length /\ length < N
    /\ \E i \in SlotIdx : i >= length /\ slots[i] \in Values

\* ---- C3 -------------------------------------------------------------------
\* C3: no destructor runs on uninitialized bits, none runs twice on a value,
\* none runs on a value that pop has moved out to the caller, and once the
\* container is torn down every value that was live when drop() was entered
\* has been destructed exactly once; discarding the array runs no destructor.
C3_TeardownDestructsLiveOnce ==
    /\ Uninit \notin Range(dropLog)
    /\ \A v \in Values : Count(dropLog, v) <= 1
    /\ \A v \in Values : v \in Range(dropLog) => owner[v] = "dead"
    /\ pc = "dropped" =>
          /\ \A v \in liveAtDrop : Count(dropLog, v) = 1
          /\ OwnedByVec = {}

\* the scenario of test::uninitialized_drop: two pushes and a pop on a
\* container of three slots, then the container is dropped
C3_Witness ==
    /\ pc = "dropped"
    /\ N = 3
    /\ Len(pushLog) = 2
    /\ Cardinality(liveAtDrop) = 1
    /\ \E v \in Values : owner[v] = "caller"
    /\ \E i \in SlotIdx : slots[i] = Uninit

LastLive ==
    pushLog[CHOOSE i \in 1..Len(pushLog) :
               /\ owner[pushLog[i]] = "vec"
               /\ \A j \in 1..Len(pushLog) : owner[pushLog[j]] = "vec" => j <= i]

\* C6: pop on a non-empty container returns Some of the value in slot
\* length - 1, which is the value pushed last among those not yet popped, and
\* takes exactly 1 from length (so that consecutive pops return the values in
\* the reverse order of their pushes).
C6_PopReturnsLastPushed ==
    [][(IsPopStep /\ length > 0) =>
          /\ ret'.op = "pop" /\ ret'.res = "Some"
          /\ ret'.val = slots[length - 1]
          /\ ret'.val = LastLive
          /\ length' = length - 1]_vars

\* two or more values have been popped, the last of them from below another
\* live value
C6_Witness ==
    /\ ret.op = "pop" /\ ret.res = "Some"
    /\ Cardinality({v \in Values : owner[v] = "caller"}) >= 2
    /\ length >= 1

\* ---- C7 -------------------------------------------------------------------
\* C7: pop on an empty container returns None, does not panic, and leaves
\* length, the memory of the array and the array field as they were.
C7_PopOnEmptyIsNone ==
    [][(IsPopStep /\ length = 0) =>
          /\ ret'.op = "pop" /\ ret'.res = "None"
          /\ length' = 0
          /\ slots' = slots
          /\ array' = array
          /\ owner' = owner]_vars

\* pop has returned None on a container that pops had emptied
C7_Witness ==
    /\ ret.op = "pop" /\ ret.res = "None"
    /\ length = 0
    /\ Len(pushLog) >= 2
    /\ OwnedByVec = {}

\* ---- C8 -------------------------------------------------------------------
\* C8: while the array is in place, the live view has exactly length()
\* elements, they are the values the container owns, each once, in the order
\* of their pushes, and the view ends where the live prefix ends.
C8_ViewIsLiveInPushOrder ==
    array = "Some" =>
       /\ Len(View) = length
       /\ Range(View) = OwnedByVec
       /\ Cardinality(OwnedByVec) = length
       /\ \A i \in 1..Len(View) : View[i] = slots[i - 1]
       /\ \A i, j \in 1..Len(View) :
             i < j => /\ Pos(pushLog, View[i]) > 0
                      /\ Pos(pushLog, View[i]) < Pos(pushLog, View[j])

\* a view of two or more elements, with the bits of a popped value in a slot
\* behind it
C8_Witness ==
    /\ pc = "live"
    /\ Len(View) >= 2
    /\ \E i \in SlotIdx : i >= length /\ slots[i] \in Values

\* ---- C9 -------------------------------------------------------------------
\* C9: of two values live when drop() is entered, the one pushed later is
\* destructed before the one pushed earlier, and when drop() has returned
\* all of them have been destructed.
C9_TeardownReverseOrder ==
    /\ \A a, b \in liveAtDrop :
          (Pos(pushLog, a) < Pos(pushLog, b) /\ a \in Range(dropLog)) =>
              /\ b \in Range(dropLog)
              /\ Pos(dropLog, b) < Pos(dropLog, a)
    /\ pc = "dropped" => liveAtDrop \subseteq Range(dropLog)

\* a container of two or more live values has been torn down
C9_Witness ==
    /\ pc = "dropped"
    /\ Cardinality(liveAtDrop) >= 2
    /\ Len(dropLog) >= 2

\* ---- C10 ------------------------------------------------------------------
\* C10: when push has returned Err, its argument has been destructed, once;
\* it is not in the result, not in the hands of the caller and not in the
\* array.
C10_RejectedValueDestructed ==
    (ret.op = "push" /\ ret.res = "Err") =>
       /\ Count(dropLog, ret.arg) = 1
       /\ owner[ret.arg] = "dead"
       /\ ret.val = Uninit
       /\ \A i \in SlotIdx : slots[i] # ret.arg
       /\ ret.arg \notin Range(pushLog)

\* push has returned Err to the owner of a container that holds one value
C10_Witness ==
    /\ pc = "live"
    /\ ret.op = "push" /\ ret.res = "Err"
    /\ N = 1
    /\ length = 1

\* ---- C11 ------------------------------------------------------------------
\* C11: capacity() never fails and returns N, for every N and every element
\* size, the size zero included, in every state it is called in.
C11_CapacityReturnsN ==
    ret.op = "capacity" => (ret.res = "Ok" /\ ret.val = N)

\* ---- C12 ------------------------------------------------------------------
\* a call of a[i] by the owner
IsIndexStep == pc = "live" /\ pc' # "drop_loop" /\ ret'.op = "index"

\* C12: a[i] returns the i-th element of the live prefix when i < length()
\* and panics when i >= length(), also for a slot of the array that is not
\* live; it changes nothing in the container.
C12_IndexChecksLiveBound ==
    [][IsIndexStep =>
          /\ IF ret'.arg < length
             THEN /\ ret'.res = "Ok"
                  /\ ret'.val = slots[ret'.arg]
                  /\ Live(ret'.arg)
                  /\ pc' = "live"
             ELSE /\ ret'.res = "Panic"
                  /\ pc' = "unwind"
          /\ slots' = slots /\ idx' = idx /\ array' = array]_vars

\* a[i] has panicked for a slot of the array behind a non-empty live prefix,
\* a slot that still holds the bits of a popped value
C12_Witness ==
    /\ pc = "unwind"
    /\ ret.op = "index" /\ ret.res = "Panic"
    /\ 0 < length /\ length <= ret.arg /\ ret.arg < N
    /\ slots[ret.arg] \in Values

\* ---- C13 ------------------------------------------------------------------
\* C13: from_iter on a source of k elements and an array of N slots: with
\* k <= N it does not panic and returns a container of length k whose live
\* view is the source in its order; with k > N it does not return (it ends
\* in a panic) and stores no more than N elements.
C13_FromIterBuildsOrPanics ==
    [][pc = "from_iter" =>
          IF srcLen <= N
          THEN /\ pc' \in {"from_iter", "live"}
               /\ pc' = "live" => /\ length' = srcLen
                                  /\ View' = [i \in 1..srcLen |-> i]
          ELSE /\ pc' \in {"from_iter", "unwind"}
               /\ Len(pushLog') <= N]_vars

\* ---- C14 ------------------------------------------------------------------
\* C14: with N = 0, capacity() returns 0, length() is 0 in every reachable
\* state, and every push returns Err.
C14_ZeroCapacity ==
    N = 0 =>
       /\ length = 0
       /\ ret.op = "capacity" => (ret.res = "Ok" /\ ret.val = 0)
       /\ ret.op = "push" => ret.res = "Err"

\* ---- C15 ------------------------------------------------------------------
\* C15: a container on which nothing has been pushed yet has length() = 0,
\* no live slot and no value of its own, and capacity() returns N on it.
C15_FreshIsEmptyWithCapacityN ==
    fresh = 1 =>
       /\ length = 0
       /\ \A i \in SlotIdx : ~Live(i) /\ slots[i] = Uninit
       /\ OwnedByVec = {}
       /\ ret.op = "capacity" => (ret.res = "Ok" /\ ret.val = N)

\* ---- C16 ------------------------------------------------------------------
\* the values that have been passed to push
Passed == 1..(fresh - 1)

\* C16: a value passed to push is returned by at most one pop and destructed
\* by the container at most once, never both; once the container is torn
\* down, each such value has been either returned by one pop or destructed
\* once.
C16_OneFatePerValue ==
    \A v \in Passed :
       /\ Count(popLog, v) <= 1
       /\ Count(dropLog, v) <= 1
       /\ Count(popLog, v) + Count(dropLog, v) <= 1
       /\ pc = "dropped" => Count(popLog, v) + Count(dropLog, v) = 1

\* a torn down container of which one value was popped, one was rejected by
\* a full push and one was live to the end
C16_Witness ==
    /\ pc = "dropped"
    /\ popLog # <<>>
    /\ liveAtDrop # {}
    /\ sizeT # 0
    /\ \E v \in Range(dropLog) : v \notin liveAtDrop

\* ---- C17 ------------------------------------------------------------------
\* C17: a push that succeeds writes slot length and no other slot, a pop that
\* succeeds (the owner's or one of drop()) writes slot length - 1 and no
\* other slot, and a step that leaves length alone writes no slot.
C17_OneSlotTouched ==
    [][/\ idx' = idx + 1 =>
             /\ \A i \in SlotIdx \ {idx} : slots'[i] = slots[i]
             /\ slots'[idx] = ret'.arg
       /\ idx' = idx - 1 =>
             \A i \in SlotIdx \ {idx - 1} : slots'[i] = slots[i]
       /\ idx' = idx => slots' = slots]_vars

\* a pop has succeeded above two or more values that stay live
C17_Witness ==
    /\ pc = "live"
    /\ ret.op = "pop" /\ ret.res = "Some"
    /\ length >= 2
    /\ pre.idx = length + 1

\* ---- C18 ------------------------------------------------------------------
\* C18: drop() entered with length() = k comes to its end; on the way length
\* plus the pops made stays k, the array field is given up only with
\* length = 0, and at the end k pops were made, length is 0, no slot is live
\* and the array is gone.
C18_TeardownTerminates ==
    /\ [](pc \in {"drop_loop", "dropped"} =>
             length + popsInDrop = Cardinality(liveAtDrop))
    /\ [](array = "None" => (pc = "dropped" /\ length = 0))
    /\ [](pc = "drop_loop" =>
             <>(/\ pc = "dropped"
                /\ length = 0
                /\ popsInDrop = Cardinality(liveAtDrop)
                /\ \A i \in SlotIdx : ~Live(i)
                /\ array = "None"))

\* drop() has returned after two or more turns of its loop
C18_Witness ==
    /\ pc = "dropped"
    /\ popsInDrop >= 2
    /\ array = "None"

\* ---- C19 ------------------------------------------------------------------
\* from_iter has panicked on the Err of a push: the source was longer than
\* the array
FromIterOverflowed ==
    /\ srcLen > N
    /\ pc \in {"unwind", "drop_loop", "dropped"}
    /\ ret.op = "push" /\ ret.res = "Err"

\* C19: when from_iter fails on a source longer than the array, the N values
\* pushed and the value rejected are destructed at most once each, the
\* rejected one at once, and when the unwinding has dropped the container
\* each of the N + 1 has been destructed exactly once and nothing else has.
C19_FromIterOverflowDestructsAll ==
    FromIterOverflowed =>
       /\ Len(pushLog) = N
       /\ \A v \in Range(pushLog) : Count(dropLog, v) <= 1
       /\ Count(dropLog, ret.arg) = 1
       /\ pc = "dropped" =>
             /\ \A v \in Range(pushLog) : Count(dropLog, v) = 1
             /\ Len(dropLog) = N + 1

\* the container of a from_iter that overflowed after two or more pushes has
\* been dropped
C19_Witness ==
    /\ FromIterOverflowed
    /\ pc = "dropped"
    /\ N >= 2

\* ---- C20 ------------------------------------------------------------------
\* C20: the array field is Some, and base_ptr finds it, in every state before
\* drop() has returned, the turns of the loop of drop() included; it is None
\* only when that loop is over; no call has ended in unreachable!().
C20_ArrayIsSomeUntilReleased ==
    /\ pc # "dropped" => (array = "Some" /\ base_ptr = "ptr")
    /\ array = "None" => (pc = "dropped" /\ ~DropLoopTest(length))
    /\ ret.res # "Unreachable"

\* the loop of drop() is between two pops, the array still in place
C20_Witness ==
    /\ pc = "drop_loop"
    /\ popsInDrop >= 1
    /\ length >= 1
    /\ array = "Some"
====
